---------------------------- MODULE Spec2Model ----------------------------
(***************************************************************************)
(* Model of the hermes tabular data preparation code:                      *)
(*   hermes.datasets.regression.Regression  (prepare_data, revert_tuning,  *)
(*       _dummy_encoder, _one_hot_encoder, _parameter_tuning,              *)
(*       _missing_data)                                                    *)
(*   hermes.data.base_data.NumericalData / CategoricalData                 *)
(*   hermes.utilities.data_normalization (minmax, L1, L2, std)             *)
(*   hermes.model.model.RegModel                                           *)
(*                                                                         *)
(* Reading of the source.  Attribute names are resolved on the object they *)
(* are written on: self.model.__numerical_data is the dictionary of the    *)
(* RegModel object, self.__numerical_data / self.numerical_data is the     *)
(* dictionary of the Regression object.  self.model is the RegModel whose  *)
(* data attribute starts as an empty DataFrame.  CategoricalData(i, ...)   *)
(* in prepare_data is the class of base_data, and the enum members are the *)
(* IntEnum values of hermes.utilities.enums; an argument that is no member *)
(* of the enum is the integer 0.  A Series handed to a method is the       *)
(* caller's object, so a write into it is a write into the caller's frame. *)
(*                                                                         *)
(* Numbers.  A float is a pair <<n, d>>: a normalised fraction n/d when    *)
(* d > 0, and <<0,0>> = NaN, <<1,0>> = +inf, <<-1,0>> = -inf.  Arithmetic  *)
(* is exact on fractions and follows IEEE-754 on the special values.  A    *)
(* square root that is not rational is rounded down to a multiple of       *)
(* 1/SqrtScale.                                                            *)
(*                                                                         *)
(* Series.  A pandas Series is a function from its index labels (row      *)
(* numbers from 1) to cells; a DataFrame column assignment and pd.concat   *)
(* align on the index labels and fill absent labels with NaN.              *)
(*                                                                         *)
(* Specifications.  Spec: a Regression object on two-row datasets.         *)
(* SpecScenario: the same object on four-row datasets.  SpecAttr: the      *)
(* object of SpecScenario with a caller that also uses set_attribute on    *)
(* the stored NumericalData objects.  SpecUnit: the constructors and the   *)
(* static methods applied directly.                                        *)
(***************************************************************************)
EXTENDS Integers, Sequences, FiniteSets, TLC

\* ------------------------------------------------------------------------
\* Bounds of the model
\* ------------------------------------------------------------------------
NRows == 2
UnitNRows == 3
MaxCalls == 2
SqrtScale == 100

Rows == 1..NRows
UnitRows == 1..UnitNRows

\* ------------------------------------------------------------------------
\* Float arithmetic
\* ------------------------------------------------------------------------
NaN == <<0, 0>>
PosInf == <<1, 0>>
NegInf == <<-1, 0>>

Abs(i) == IF i < 0 THEN -i ELSE i
Sign(i) == IF i < 0 THEN -1 ELSE IF i > 0 THEN 1 ELSE 0

RECURSIVE Gcd(_, _)
Gcd(a, b) == IF b = 0 THEN a ELSE Gcd(b, a % b)

\* the fraction n/d, d # 0, in lowest terms with a positive denominator
Frac(n, d) ==
    LET g == Gcd(Abs(n), Abs(d))
        s == IF d < 0 THEN -1 ELSE 1
    IN  <<(s * n) \div g, (s * d) \div g>>

R(i) == <<i, 1>>

IsNaN(x) == x = NaN
IsFinite(x) == x[2] > 0
IsInf(x) == x[2] = 0 /\ x[1] # 0

RNeg(x) == <<-x[1], x[2]>>

RAdd(x, y) ==
    IF IsNaN(x) \/ IsNaN(y) THEN NaN
    ELSE IF IsInf(x) /\ IsInf(y) THEN (IF x = y THEN x ELSE NaN)
    ELSE IF IsInf(x) THEN x
    ELSE IF IsInf(y) THEN y
    ELSE Frac(x[1] * y[2] + y[1] * x[2], x[2] * y[2])

RSub(x, y) == RAdd(x, RNeg(y))

RMul(x, y) ==
    IF IsNaN(x) \/ IsNaN(y) THEN NaN
    ELSE IF IsInf(x) \/ IsInf(y)
         THEN (IF x[1] = 0 \/ y[1] = 0 THEN NaN ELSE <<Sign(x[1]) * Sign(y[1]), 0>>)
    ELSE Frac(x[1] * y[1], x[2] * y[2])

RDiv(x, y) ==
    IF IsNaN(x) \/ IsNaN(y) THEN NaN
    ELSE IF IsInf(x) /\ IsInf(y) THEN NaN
    ELSE IF IsInf(x) THEN (IF y[1] < 0 THEN RNeg(x) ELSE x)
    ELSE IF IsInf(y) THEN R(0)
    ELSE IF y[1] = 0 THEN <<Sign(x[1]), 0>>
    ELSE Frac(x[1] * y[2], x[2] * y[1])

RAbs(x) == <<Abs(x[1]), x[2]>>

\* x < y on values that are not NaN
RLess(x, y) ==
    IF IsFinite(x) /\ IsFinite(y) THEN x[1] * y[2] < y[1] * x[2]
    ELSE IF IsInf(x) /\ IsInf(y) THEN x[1] < y[1]
    ELSE IF IsInf(x) THEN x[1] < 0
    ELSE y[1] > 0

\* largest k in lo..hi with k * k <= n
RECURSIVE ISqrtIn(_, _, _)
ISqrtIn(n, lo, hi) ==
    IF lo >= hi THEN lo
    ELSE LET mid == (lo + hi + 1) \div 2
         IN  IF mid * mid <= n THEN ISqrtIn(n, mid, hi) ELSE ISqrtIn(n, lo, mid - 1)

\* the root of a 32-bit integer is at most 46340
ISqrt(n) == ISqrtIn(n, 0, IF n < 46340 THEN n ELSE 46340)

\* x ** 0.5
RSqrt(x) ==
    IF IsNaN(x) THEN NaN
    ELSE IF IsInf(x) THEN (IF x = PosInf THEN PosInf ELSE NaN)
    ELSE IF x[1] < 0 THEN NaN
    ELSE LET sn == ISqrt(x[1])
             sd == ISqrt(x[2])
         IN  IF sn * sn = x[1] /\ sd * sd = x[2]
             THEN Frac(sn, sd)
             ELSE Frac(ISqrt((x[1] * SqrtScale * SqrtScale) \div x[2]), SqrtScale)

\* ------------------------------------------------------------------------
\* pandas Series helpers
\* ------------------------------------------------------------------------
\* the labels of a Series whose cell is not missing (skipna)
Valid(s) == {r \in DOMAIN s : ~IsNaN(s[r])}

\* Series.apply(abs)
SeriesAbs(s) == [r \in DOMAIN s |-> RAbs(s[r])]

RECURSIVE SumOver(_, _)
SumOver(s, S) ==
    IF S = {} THEN R(0)
    ELSE LET r == CHOOSE q \in S : TRUE
         IN  RAdd(s[r], SumOver(s, S \ {r}))

\* Series.sum(axis=0): missing cells are skipped, the empty sum is 0
SeriesSum(s) == SumOver(s, Valid(s))

\* Series.mean(axis=0)
SeriesMean(s) ==
    IF Valid(s) = {} THEN NaN
    ELSE RDiv(SeriesSum(s), R(Cardinality(Valid(s))))

\* Series.min(axis=0)
SeriesMin(s) ==
    IF Valid(s) = {} THEN NaN
    ELSE s[CHOOSE r \in Valid(s) : \A q \in Valid(s) : ~RLess(s[q], s[r])]

\* Series.max(axis=0)
SeriesMax(s) ==
    IF Valid(s) = {} THEN NaN
    ELSE s[CHOOSE r \in Valid(s) : \A q \in Valid(s) : ~RLess(s[r], s[q])]

\* Series.std(axis=0): sample standard deviation (ddof = 1)
SeriesStd(s) ==
    IF Cardinality(Valid(s)) < 2 THEN NaN
    ELSE LET m == SeriesMean(s)
             sq == [r \in Valid(s) |-> RMul(RSub(s[r], m), RSub(s[r], m))]
         IN  RSqrt(RDiv(SumOver(sq, Valid(s)), R(Cardinality(Valid(s)) - 1)))

\* position of label r among the non-missing cells sorted by value
SortPos(s, r) ==
    1 + Cardinality({q \in Valid(s) : RLess(s[q], s[r]) \/ (s[q] = s[r] /\ q < r)})

KthSmallest(s, k) == s[CHOOSE r \in Valid(s) : SortPos(s, r) = k]

\* a median that adds the two middle values without halving the sum
SeriesMedian_NoHalving(s) ==
    LET n == Cardinality(Valid(s))
    IN  IF n = 0 THEN NaN
        ELSE IF n % 2 = 1 THEN KthSmallest(s, (n + 1) \div 2)
        ELSE RAdd(KthSmallest(s, n \div 2), KthSmallest(s, n \div 2 + 1))

\* Series.median(axis=0)
SeriesMedian(s) ==
    LET n == Cardinality(Valid(s))
    IN  IF n = 0 THEN NaN
        ELSE IF n % 2 = 1 THEN KthSmallest(s, (n + 1) \div 2)
        ELSE RDiv(RAdd(KthSmallest(s, n \div 2), KthSmallest(s, n \div 2 + 1)), R(2))

\* the labels of a set in ascending order
RECURSIVE SetToSeq(_)
SetToSeq(S) ==
    IF S = {} THEN <<>>
    ELSE LET m == CHOOSE r \in S : \A q \in S : r <= q
         IN  <<m>> \o SetToSeq(S \ {m})

Range(f) == {f[i] : i \in DOMAIN f}

\* list(Series.unique()): the distinct cells in order of first appearance
SeriesUnique(s) ==
    LET first == {r \in DOMAIN s : \A q \in DOMAIN s : q < r => s[q] # s[r]}
        order == SetToSeq(first)
    IN  [i \in 1..Len(order) |-> s[order[i]]]

\* frame[col] = series: the assigned Series is aligned on the frame's index
Reindex(s, index) == [r \in index |-> IF r \in DOMAIN s THEN s[r] ELSE NaN]

\* ------------------------------------------------------------------------
\* hermes.data.base_data
\* ------------------------------------------------------------------------
NumericalData(key, data) ==
    LET sd == SeriesStd(data)
    IN  [key |-> key,
         mean_ |-> SeriesMean(data),
         min_ |-> SeriesMin(data),
         max_ |-> SeriesMax(data),
         std_ |-> sd,
         var_ |-> RMul(sd, sd),
         median_ |-> SeriesMedian(data)]

\* an encoder that numbers the categories by sorted rank
Encoder_SortedRank(categories) ==
    [k \in Range(categories) |->
        Cardinality({c \in Range(categories) : RLess(c, k)})]

\* CategoricalData._encoder: encoder[key] = i for i, key in enumerate(categories)
Encoder(categories) ==
    [k \in Range(categories) |->
        (CHOOSE i \in DOMAIN categories :
            /\ categories[i] = k
            /\ \A j \in DOMAIN categories : categories[j] = k => j <= i) - 1]

CategoricalData(key, data) ==
    LET cats == SeriesUnique(data)
    IN  [key |-> key, categories |-> cats, encoder |-> Encoder(cats)]

\* ------------------------------------------------------------------------
\* hermes.utilities.enums (IntEnum members, numbered by auto())
\* ------------------------------------------------------------------------
MissingData_MEAN == 1
MissingData_DELETE == 2
MissingData_STD == 3
MissingData_MIN == 4
MissingData_MAX == 5
MissingData_MODE == 6

Normalization_MINMAX == 1
Normalization_STD == 2
Normalization_L1 == 3
Normalization_L2 == 4
Normalization_ROBUST_SCALER == 5

Categorical_DUMMY == 1
Categorical_ONE_HOT == 2

\* ------------------------------------------------------------------------
\* hermes.utilities.data_normalization
\* ------------------------------------------------------------------------
\* minmax whose reverse branch adds max_ where the source adds min_
minmax_ReverseAddsMax(data, min_, max_, reverse) ==
    IF reverse
    THEN [r \in DOMAIN data |-> RAdd(RMul(data[r], RSub(max_, min_)), max_)]
    ELSE [r \in DOMAIN data |-> RDiv(RSub(data[r], min_), RSub(max_, min_))]

minmax(data, min_, max_, reverse) ==
    IF reverse
    THEN [r \in DOMAIN data |-> RAdd(RMul(data[r], RSub(max_, min_)), min_)]
    ELSE [r \in DOMAIN data |-> RDiv(RSub(data[r], min_), RSub(max_, min_))]

L1(data, raw_data, reverse) ==
    IF reverse
    THEN [r \in DOMAIN data |-> RMul(data[r], SeriesSum(SeriesAbs(raw_data)))]
    ELSE [r \in DOMAIN data |-> RDiv(data[r], SeriesSum(SeriesAbs(data)))]

L2(data, raw_data, reverse) ==
    IF reverse
    THEN [r \in DOMAIN data |-> RMul(data[r], RSqrt(SeriesSum(raw_data)))]
    ELSE [r \in DOMAIN data |-> RDiv(data[r], RSqrt(SeriesSum(data)))]

std(data, mean_, std_, reverse) ==
    IF reverse
    THEN [r \in DOMAIN data |-> RAdd(RMul(data[r], std_), mean_)]
    ELSE [r \in DOMAIN data |-> RDiv(RSub(data[r], mean_), std_)]

\* ------------------------------------------------------------------------
\* hermes.datasets.regression: the static methods of Regression.
\* A method that can raise returns [err, val]; err = "none" is a normal
\* return of val.
\* ------------------------------------------------------------------------
Return(v) == [err |-> "none", val |-> v]
Raise(e) == [err |-> e, val |-> <<>>]

\* _parameter_tuning whose last branch falls back to the default method STD
ParameterTuning_DefaultStd(data, col_data, normalization, reverse) ==
    IF normalization = Normalization_MINMAX
    THEN Return(minmax(data, col_data.min_, col_data.max_, reverse))
    ELSE IF normalization = Normalization_L1
    THEN Return(L1(data, reverse, FALSE))
    ELSE IF normalization = Normalization_L2
    THEN Return(L2(data, reverse, FALSE))
    ELSE IF normalization = Normalization_ROBUST_SCALER
    THEN Raise("AttributeError")
    ELSE Return(std(data, col_data.mean_, col_data.std_, reverse))

\* Regression._parameter_tuning.  L1 and L2 receive reverse as their second
\* positional argument (raw_data); NumericalData has no quantile fields.
ParameterTuning(data, col_data, normalization, reverse) ==
    IF normalization = Normalization_MINMAX
    THEN Return(minmax(data, col_data.min_, col_data.max_, reverse))
    ELSE IF normalization = Normalization_L1
    THEN Return(L1(data, reverse, FALSE))
    ELSE IF normalization = Normalization_L2
    THEN Return(L2(data, reverse, FALSE))
    ELSE IF normalization = Normalization_STD
    THEN Return(std(data, col_data.mean_, col_data.std_, reverse))
    ELSE IF normalization = Normalization_ROBUST_SCALER
    THEN Raise("AttributeError")
    ELSE Return(data)

\* Series.fillna(value)
FillNa(data, value) == [r \in DOMAIN data |-> IF IsNaN(data[r]) THEN value ELSE data[r]]

\* Series.dropna()
DropNa(data) == [r \in Valid(data) |-> data[r]]

\* _missing_data with the scalars of its MAX and MIN branches exchanged
MissingData_MinMaxSwapped(data, key, missing_data) ==
    IF missing_data = MissingData_MEAN THEN Return(FillNa(data, key.mean_))
    ELSE IF missing_data = MissingData_STD THEN Return(FillNa(data, key.std_))
    ELSE IF missing_data = MissingData_MAX THEN Return(FillNa(data, key.min_))
    ELSE IF missing_data = MissingData_MIN THEN Return(FillNa(data, key.max_))
    ELSE IF missing_data = MissingData_DELETE THEN Return(DropNa(data))
    ELSE IF missing_data = MissingData_MODE THEN Raise("AttributeError")
    ELSE Return(data)

\* Regression._missing_data.  NumericalData has no mode_ field.
MissingData(data, key, missing_data) ==
    IF missing_data = MissingData_MEAN THEN Return(FillNa(data, key.mean_))
    ELSE IF missing_data = MissingData_STD THEN Return(FillNa(data, key.std_))
    ELSE IF missing_data = MissingData_MAX THEN Return(FillNa(data, key.max_))
    ELSE IF missing_data = MissingData_MIN THEN Return(FillNa(data, key.min_))
    ELSE IF missing_data = MissingData_DELETE THEN Return(DropNa(data))
    ELSE IF missing_data = MissingData_MODE THEN Raise("AttributeError")
    ELSE Return(data)

\* the key that encoder.items() yields at position i (insertion order)
EncoderKey(encoder, i) == CHOOSE k \in DOMAIN encoder : encoder[k] = i

\* the loop of _dummy_encoder from item i on: data[data == key] = value
RECURSIVE DummyLoop(_, _, _)
DummyLoop(data, encoder, i) ==
    IF i >= Cardinality(DOMAIN encoder) THEN data
    ELSE DummyLoop([r \in DOMAIN data |->
                        IF data[r] = EncoderKey(encoder, i) THEN R(i) ELSE data[r]],
                   encoder, i + 1)

\* Regression._dummy_encoder: the Series it returns, which is also the state
\* it leaves its argument in
DummyEncoder(data, encoder) == DummyLoop(data, encoder, 0)

\* _one_hot_encoder as get_dummies(drop_first=True) would build it
OneHotEncoder_DropFirst(name, data, categories) ==
    [i \in 1..(Len(categories) - 1) |->
        [name |-> <<name, categories[i + 1]>>,
         values |-> [r \in DOMAIN data |->
                        IF data[r] = categories[i + 1] THEN R(1) ELSE R(0)]]]

\* Regression._one_hot_encoder: one indicator column per category, in the
\* order of categories, named {data.name}_{category}
OneHotEncoder(name, data, categories) ==
    [i \in 1..Len(categories) |->
        [name |-> <<name, categories[i]>>,
         values |-> [r \in DOMAIN data |->
                        IF data[r] = categories[i] THEN R(1) ELSE R(0)]]]

\* ------------------------------------------------------------------------
\* State
\* ------------------------------------------------------------------------
VARIABLES
    input_data,             \* the caller's DataFrame: column name -> Series
    data,                   \* RegModel.data: the sequence of [name, values] columns
    info,                   \* RegModel.info
    model_numerical_data,   \* self.model.__numerical_data: column -> NumericalData
    model_categorical_data, \* self.model.__categorical_data: column -> CategoricalData
    numerical_data,         \* Regression.__numerical_data, read by revert_tuning
    model,                  \* the local dict of prepare_data: sequence of [key, cols]
    call,                   \* arguments and loop position of the running/last prepare_data
    pc,                     \* position inside prepare_data, or "idle"
    ncalls,                 \* number of prepare_data calls made
    last                    \* outcome of the last operation that returned or raised

vars == <<input_data, data, info, model_numerical_data, model_categorical_data,
          numerical_data, model, call, pc, ncalls, last>>

\* ------------------------------------------------------------------------
\* Inputs
\* ------------------------------------------------------------------------
NumericalColumns == {"a", "b"}
CategoricalColumns == {"c", "d"}
NumVals == {NaN, R(1), R(3)}

\* the datasets a caller passes in
Frames ==
    {[k \in NumericalColumns \cup CategoricalColumns |->
        IF k = "a" THEN fa
        ELSE IF k = "b" THEN [r \in Rows |-> IF r = 1 THEN NaN ELSE R(2)]
        ELSE IF k = "c" THEN [r \in Rows |-> R(r % 2)]
        ELSE [r \in Rows |-> R(10)]] : fa \in [Rows -> NumVals]}

NumericalColsArgs == {<<>>, <<"a">>, <<"b", "a">>}
CategoricalColsArgs == {<<>>, <<"d", "c">>}
CategoricalTypeArgs == {0, Categorical_DUMMY, Categorical_ONE_HOT}
NormalizationArgs == {0, Normalization_MINMAX, Normalization_STD, Normalization_L1,
                      Normalization_L2, Normalization_ROBUST_SCALER}
MissingDataArgs == {0, MissingData_MEAN, MissingData_DELETE, MissingData_STD,
                    MissingData_MIN, MissingData_MAX, MissingData_MODE}
ColNameArgs == {"a", "z"}
AttrArgs == {"mean_", "mode_"}
ValueArgs == {R(0)}

NoCall == [numerical_cols |-> <<>>, categorical_cols |-> <<>>, categorical_type |-> 0,
           normalization |-> 0, missing_data |-> 0, i |-> 0,
           input0 |-> <<>>, data0 |-> <<>>, numerical0 |-> <<>>, categorical0 |-> <<>>]

NoInfo == [numerical_columns |-> <<>>, categorical_columns |-> <<>>,
           categorical_conversion |-> "", normalization_method |-> "",
           missing_data |-> ""]

Outcome(op, err, col) == [op |-> op, err |-> err, col_name |-> col, val |-> <<>>]

\* ------------------------------------------------------------------------
\* RegModel.set_model_info: a method outside the enum leaves the field as is
\* ------------------------------------------------------------------------
SetModelInfo(old, numerical_columns, categorical_columns, categorical_conversion, normalization_method, missing_data_method) ==
    [numerical_columns |-> numerical_columns,
     categorical_columns |-> categorical_columns,
     categorical_conversion |->
        IF categorical_conversion = Categorical_ONE_HOT THEN "One-Hot encoder"
        ELSE IF categorical_conversion = Categorical_DUMMY THEN "Dummy encoder"
        ELSE old.categorical_conversion,
     normalization_method |->
        IF normalization_method = Normalization_STD THEN "Standard deviation normalization"
        ELSE IF normalization_method = Normalization_MINMAX THEN "MinMax normalization"
        ELSE IF normalization_method = Normalization_L1 THEN "L1 Regularization method"
        ELSE IF normalization_method = Normalization_L2 THEN "L2 Regularization method"
        ELSE IF normalization_method = Normalization_ROBUST_SCALER THEN "Robust scaler method"
        ELSE old.normalization_method,
     missing_data |->
        IF missing_data_method = MissingData_MEAN THEN "Missing values filled with MEAN"
        ELSE IF missing_data_method = MissingData_DELETE THEN "Deleted rows with missing values"
        ELSE IF missing_data_method = MissingData_STD
             THEN "Missing values filled with STANDARD DEVIATION"
        ELSE IF missing_data_method = MissingData_MIN THEN "Missing values filled with MIN value"
        ELSE IF missing_data_method = MissingData_MAX THEN "Missing values filled with MAX value"
        ELSE IF missing_data_method = MissingData_MODE THEN "Missing values filled with MODE value"
        ELSE old.missing_data]

\* ------------------------------------------------------------------------
\* Helpers of prepare_data
\* ------------------------------------------------------------------------
\* model[key] = cols on a dict that keeps insertion order
DictSet(d, key, cols) ==
    IF \E j \in DOMAIN d : d[j].key = key
    THEN [j \in DOMAIN d |-> IF d[j].key = key THEN [key |-> key, cols |-> cols] ELSE d[j]]
    ELSE Append(d, [key |-> key, cols |-> cols])

\* dict[key] = value on a dict whose order is not observed
Store(d, key, value) == [k \in DOMAIN d \cup {key} |-> IF k = key THEN value ELSE d[k]]

\* pd.concat([frame, value], axis=1): outer join on the index labels
Concat(frame, cols) ==
    LET all == frame \o cols
        index == UNION {DOMAIN all[j].values : j \in DOMAIN all}
    IN  [j \in DOMAIN all |->
            [name |-> all[j].name, values |-> Reindex(all[j].values, index)]]

\* the loop over model.items() from item j on
RECURSIVE ConcatLoop(_, _, _)
ConcatLoop(frame, d, j) ==
    IF j > Len(d) THEN frame
    ELSE ConcatLoop(Concat(frame, d[j].cols), d, j + 1)

AfterNumerical(c) ==
    IF c.categorical_cols # <<>> THEN "categorical" ELSE "concatenate"

\* ------------------------------------------------------------------------
\* Initial state: a constructed Regression object and a caller's dataset
\* ------------------------------------------------------------------------
Init ==
    /\ input_data \in Frames
    /\ data = <<>>
    /\ info = NoInfo
    /\ model_numerical_data = <<>>
    /\ model_categorical_data = <<>>
    /\ numerical_data = <<>>
    /\ model = <<>>
    /\ call = NoCall
    /\ pc = "idle"
    /\ ncalls = 0
    /\ last = Outcome("none", "none", "")

\* ------------------------------------------------------------------------
\* Regression.prepare_data
\* ------------------------------------------------------------------------
\* entry: model = {} and self.model.set_model_info(...).  The calls of one
\* behaviour after the first repeat its three methods and choose their column
\* lists freely; at most MaxCalls calls are made.
PrepareData(numerical_cols, categorical_cols, categorical_type, normalization, missing_data) ==
    /\ pc = "idle"
    /\ ncalls < MaxCalls
    /\ ncalls > 0 => /\ categorical_type = call.categorical_type
                     /\ normalization = call.normalization
                     /\ missing_data = call.missing_data
    /\ ncalls' = ncalls + 1
    /\ model' = <<>>
    /\ info' = SetModelInfo(info, numerical_cols, categorical_cols, categorical_type,
                            normalization, missing_data)
    /\ call' = [numerical_cols |-> numerical_cols, categorical_cols |-> categorical_cols,
                categorical_type |-> categorical_type, normalization |-> normalization,
                missing_data |-> missing_data, i |-> 1,
                input0 |-> input_data, data0 |-> data,
                numerical0 |-> model_numerical_data,
                categorical0 |-> model_categorical_data]
    /\ pc' = IF numerical_cols # <<>> THEN "numerical"
             ELSE IF categorical_cols # <<>> THEN "categorical"
             ELSE "concatenate"
    /\ last' = Outcome("prepare_data", "running", "")
    /\ UNCHANGED <<input_data, data, model_numerical_data, model_categorical_data,
                   numerical_data>>

\* an iteration that describes the column again after filling it and stores
\* and uses that second description
NumericalColumn_StatsAfterImpute ==
    /\ pc = "numerical"
    /\ \E i \in {call.numerical_cols[call.i]} :
       \E raw \in {NumericalData(i, input_data[i])} :
       \E filled \in {MissingData(input_data[i], raw, call.missing_data)} :
       \E assigned \in {Reindex(filled.val, DOMAIN input_data[i])} :
       \E stats \in {IF filled.err # "none" THEN raw ELSE NumericalData(i, assigned)} :
       \E tuned \in {ParameterTuning(assigned, stats, call.normalization, FALSE)} :
          /\ model_numerical_data' = Store(model_numerical_data, i, stats)
          /\ IF filled.err # "none"
             THEN /\ last' = Outcome("prepare_data", filled.err, i)
                  /\ pc' = "idle"
                  /\ UNCHANGED <<input_data, model, call>>
             ELSE /\ input_data' = [input_data EXCEPT ![i] = assigned]
                  /\ IF tuned.err # "none"
                     THEN /\ last' = Outcome("prepare_data", tuned.err, i)
                          /\ pc' = "idle"
                          /\ UNCHANGED <<model, call>>
                     ELSE /\ model' = DictSet(model, i,
                                              <<[name |-> <<i>>, values |-> tuned.val]>>)
                          /\ IF call.i < Len(call.numerical_cols)
                             THEN /\ call' = [call EXCEPT !.i = call.i + 1]
                                  /\ pc' = "numerical"
                             ELSE /\ call' = [call EXCEPT !.i = 1]
                                  /\ pc' = AfterNumerical(call)
                          /\ UNCHANGED last
    /\ UNCHANGED <<data, info, model_categorical_data, numerical_data, ncalls>>

\* one iteration of the loop over numerical_cols
NumericalColumn ==
    /\ pc = "numerical"
    /\ \E i \in {call.numerical_cols[call.i]} :
       \E stats \in {NumericalData(i, input_data[i])} :
       \E filled \in {MissingData(input_data[i], stats, call.missing_data)} :
       \E assigned \in {Reindex(filled.val, DOMAIN input_data[i])} :
       \E tuned \in {ParameterTuning(assigned, stats, call.normalization, FALSE)} :
          /\ model_numerical_data' = Store(model_numerical_data, i, stats)
          /\ IF filled.err # "none"
             THEN /\ last' = Outcome("prepare_data", filled.err, i)
                  /\ pc' = "idle"
                  /\ UNCHANGED <<input_data, model, call>>
             ELSE /\ input_data' = [input_data EXCEPT ![i] = assigned]
                  /\ IF tuned.err # "none"
                     THEN /\ last' = Outcome("prepare_data", tuned.err, i)
                          /\ pc' = "idle"
                          /\ UNCHANGED <<model, call>>
                     ELSE /\ model' = DictSet(model, i,
                                              <<[name |-> <<i>>, values |-> tuned.val]>>)
                          /\ IF call.i < Len(call.numerical_cols)
                             THEN /\ call' = [call EXCEPT !.i = call.i + 1]
                                  /\ pc' = "numerical"
                             ELSE /\ call' = [call EXCEPT !.i = 1]
                                  /\ pc' = AfterNumerical(call)
                          /\ UNCHANGED last
    /\ UNCHANGED <<data, info, model_categorical_data, numerical_data, ncalls>>

\* one iteration of the loop over categorical_cols
CategoricalColumn ==
    /\ pc = "categorical"
    /\ \E i \in {call.categorical_cols[call.i]} :
       \E stats \in {CategoricalData(i, input_data[i])} :
          /\ model_categorical_data' = Store(model_categorical_data, i, stats)
          /\ IF call.categorical_type = Categorical_DUMMY
             THEN \E dummy \in {DummyEncoder(input_data[i], stats.encoder)} :
                     /\ input_data' = [input_data EXCEPT ![i] = dummy]
                     /\ model' = DictSet(model, i, <<[name |-> <<i>>, values |-> dummy]>>)
             ELSE IF call.categorical_type = Categorical_ONE_HOT
             THEN /\ model' = DictSet(model, i,
                                      OneHotEncoder(i, input_data[i], stats.categories))
                  /\ UNCHANGED input_data
             ELSE UNCHANGED <<input_data, model>>
    /\ IF call.i < Len(call.categorical_cols)
       THEN /\ call' = [call EXCEPT !.i = call.i + 1]
            /\ pc' = "categorical"
       ELSE /\ call' = [call EXCEPT !.i = 1]
            /\ pc' = "concatenate"
    /\ UNCHANGED <<data, info, model_numerical_data, numerical_data, ncalls, last>>

\* the concatenation loop and the return
Concatenate ==
    /\ pc = "concatenate"
    /\ data' = ConcatLoop(data, model, 1)
    /\ pc' = "idle"
    /\ last' = Outcome("prepare_data", "none", "")
    /\ UNCHANGED <<input_data, info, model_numerical_data, model_categorical_data,
                   numerical_data, model, call, ncalls>>

\* a revert that describes the Series it is given and stores the description
\* as the column's statistics
RevertTuning_StoresStatistics(series, col_name, normalization) ==
    /\ pc = "idle"
    /\ IF col_name \in DOMAIN numerical_data
       THEN LET tuned == ParameterTuning(series, numerical_data[col_name],
                                         normalization, TRUE)
            IN  last' = [op |-> "revert_tuning", err |-> tuned.err,
                         col_name |-> col_name, val |-> tuned.val]
       ELSE last' = Outcome("revert_tuning", "KeyError", col_name)
    /\ model_numerical_data' =
          IF col_name \in DOMAIN model_numerical_data
          THEN Store(model_numerical_data, col_name, NumericalData(col_name, series))
          ELSE model_numerical_data
    /\ UNCHANGED <<input_data, data, info, model_categorical_data,
                   numerical_data, model, call, pc, ncalls>>

\* ------------------------------------------------------------------------
\* Regression.revert_tuning: looks the column up in self.numerical_data
\* ------------------------------------------------------------------------
RevertTuning(series, col_name, normalization) ==
    /\ pc = "idle"
    /\ IF col_name \in DOMAIN numerical_data
       THEN LET tuned == ParameterTuning(series, numerical_data[col_name],
                                         normalization, TRUE)
            IN  last' = [op |-> "revert_tuning", err |-> tuned.err,
                         col_name |-> col_name, val |-> tuned.val]
       ELSE last' = Outcome("revert_tuning", "KeyError", col_name)
    /\ UNCHANGED <<input_data, data, info, model_numerical_data, model_categorical_data,
                   numerical_data, model, call, pc, ncalls>>

\* ------------------------------------------------------------------------
\* BaseData.set_attribute on the NumericalData object stored for a column
\* ------------------------------------------------------------------------
SetAttribute(key, attr, value) ==
    /\ pc = "idle"
    /\ key \in DOMAIN model_numerical_data
    /\ IF attr \in DOMAIN model_numerical_data[key]
       THEN /\ model_numerical_data' =
                  [model_numerical_data EXCEPT ![key][attr] = value]
            /\ last' = Outcome("set_attribute", "none", key)
       ELSE /\ last' = Outcome("set_attribute", "AttributeError", key)
            /\ UNCHANGED model_numerical_data
    /\ UNCHANGED <<input_data, data, info, model_categorical_data,
                   numerical_data, model, call, pc, ncalls>>

Next ==
    \/ \E nc \in NumericalColsArgs, cc \in CategoricalColsArgs,
          ct \in CategoricalTypeArgs, nm \in NormalizationArgs, md \in MissingDataArgs :
          PrepareData(nc, cc, ct, nm, md)
    \/ NumericalColumn
    \/ CategoricalColumn
    \/ Concatenate
    \/ \E k \in ColNameArgs, nm \in NormalizationArgs :
          RevertTuning(input_data["a"], k, nm)

Spec == Init /\ [][Next]_vars

\* ------------------------------------------------------------------------
\* The same object on datasets of four rows whose numeric columns have
\* missing cells, so that a filled column has other statistics than the raw
\* one
\* ------------------------------------------------------------------------
ScenarioFrames ==
    {[k \in NumericalColumns \cup CategoricalColumns |->
        IF k = "a" THEN fa
        ELSE IF k = "b" THEN <<NaN, R(1), R(3), R(5)>>
        ELSE IF k = "c" THEN <<R(1), R(0), R(1), R(0)>>
        ELSE <<R(10), R(10), R(10), R(10)>>]
        : fa \in {<<R(25), NaN, R(35), R(45)>>, <<NaN, R(35), NaN, NaN>>}}

InitScenario ==
    /\ input_data \in ScenarioFrames
    /\ data = <<>>
    /\ info = NoInfo
    /\ model_numerical_data = <<>>
    /\ model_categorical_data = <<>>
    /\ numerical_data = <<>>
    /\ model = <<>>
    /\ call = NoCall
    /\ pc = "idle"
    /\ ncalls = 0
    /\ last = Outcome("none", "none", "")

SpecScenario == InitScenario /\ [][Next]_vars

\* ------------------------------------------------------------------------
\* The object together with a caller that also edits the stored NumericalData
\* objects through set_attribute
\* ------------------------------------------------------------------------
NextAttr ==
    \/ Next
    \/ \E k \in ColNameArgs, attr \in AttrArgs, value \in ValueArgs :
          SetAttribute(k, attr, value)

SpecAttr == InitScenario /\ [][NextAttr]_vars

\* ------------------------------------------------------------------------
\* Component specification: the constructors of base_data and the static
\* methods of Regression applied directly to the columns of a dataset.
\* last.val records the arguments and the results of the application; a
\* behaviour applies one of them once.
\* ------------------------------------------------------------------------
UnitVals == {NaN, R(-1), R(1), R(3)}
CatVals == {R(0), R(1), R(10)}

UnitFrames ==
    {[k \in NumericalColumns \cup CategoricalColumns |->
        IF k = "a" THEN fa ELSE IF k = "b" THEN fb ELSE [r \in UnitRows |-> R(10)]]
        : fa \in [UnitRows -> UnitVals], fb \in [UnitRows -> {NaN, R(2)}]}
    \cup
    {[k \in NumericalColumns \cup CategoricalColumns |->
        IF k = "c" THEN fc
        ELSE IF k = "d" THEN [r \in UnitRows |-> IF r = 1 THEN R(10) ELSE fc[r]]
        ELSE [r \in UnitRows |-> R(1)]]
        : fc \in [UnitRows -> CatVals]}

InitUnit ==
    /\ input_data \in UnitFrames
    /\ data = <<>>
    /\ info = NoInfo
    /\ model_numerical_data = <<>>
    /\ model_categorical_data = <<>>
    /\ numerical_data = <<>>
    /\ model = <<>>
    /\ call = NoCall
    /\ pc = "idle"
    /\ ncalls = 0
    /\ last = Outcome("none", "none", "")

\* everything but the dataset and the outcome is left alone
UnitFrame ==
    UNCHANGED <<data, info, model_numerical_data, model_categorical_data,
                numerical_data, model, call, pc, ncalls>>

\* NumericalData(k, frame[k]), then _parameter_tuning(frame[x], stats, nm) and
\* _parameter_tuning(result, stats, nm, reverse=True)
TuneAndRevert(k, x, normalization) ==
    /\ last.op = "none"
    /\ \E stats \in {NumericalData(k, input_data[k])} :
       \E forward \in {ParameterTuning(input_data[x], stats, normalization, FALSE)} :
       \E back \in {ParameterTuning(forward.val, stats, normalization, TRUE)} :
          last' = [op |-> "_parameter_tuning",
                   err |-> IF forward.err # "none" THEN forward.err ELSE back.err,
                   col_name |-> k,
                   val |-> [data |-> input_data[x], col_data |-> stats,
                            normalization |-> normalization,
                            forward |-> forward.val,
                            back |-> IF forward.err # "none" THEN <<>> ELSE back.val]]
    /\ UNCHANGED input_data
    /\ UnitFrame

\* NumericalData(k, frame[k]): the constructor returns for every column
Describe(k) ==
    /\ last.op = "none"
    /\ \E stats \in {NumericalData(k, input_data[k])} :
          last' = [op |-> "NumericalData", err |-> "none", col_name |-> k,
                   val |-> [data |-> input_data[k], stats |-> stats]]
    /\ UNCHANGED input_data
    /\ UnitFrame

\* NumericalData(k, frame[k]), then _missing_data(frame[k], stats, md)
Impute(k, missing_data) ==
    /\ last.op = "none"
    /\ \E stats \in {NumericalData(k, input_data[k])} :
       \E filled \in {MissingData(input_data[k], stats, missing_data)} :
          last' = [op |-> "_missing_data", err |-> filled.err, col_name |-> k,
                   val |-> [data |-> input_data[k], key |-> stats,
                            missing_data |-> missing_data, out |-> filled.val]]
    /\ UNCHANGED input_data
    /\ UnitFrame

\* CategoricalData(k, frame[k]), then _dummy_encoder(frame[k], stats.encoder),
\* which writes into the Series it is given
EncodeDummy(k) ==
    /\ last.op = "none"
    /\ \E stats \in {CategoricalData(k, input_data[k])} :
       \E dummy \in {DummyEncoder(input_data[k], stats.encoder)} :
          /\ last' = [op |-> "_dummy_encoder", err |-> "none", col_name |-> k,
                      val |-> [data |-> input_data[k], categories |-> stats.categories,
                               encoder |-> stats.encoder, out |-> dummy]]
          /\ input_data' = [input_data EXCEPT ![k] = dummy]
    /\ UnitFrame

\* CategoricalData(k, frame[k]), then _one_hot_encoder(frame[k], stats.categories)
EncodeOneHot(k) ==
    /\ last.op = "none"
    /\ \E stats \in {CategoricalData(k, input_data[k])} :
          last' = [op |-> "_one_hot_encoder", err |-> "none", col_name |-> k,
                   val |-> [data |-> input_data[k], categories |-> stats.categories,
                            encoder |-> stats.encoder,
                            out |-> OneHotEncoder(k, input_data[k], stats.categories)]]
    /\ UNCHANGED input_data
    /\ UnitFrame

NextUnit ==
    \/ \E k \in NumericalColumns, x \in NumericalColumns, nm \in NormalizationArgs :
          TuneAndRevert(k, x, nm)
    \/ \E k \in NumericalColumns : Describe(k)
    \/ \E k \in NumericalColumns, md \in MissingDataArgs : Impute(k, md)
    \/ \E k \in CategoricalColumns : EncodeDummy(k)
    \/ \E k \in CategoricalColumns : EncodeOneHot(k)

SpecUnit == InitUnit /\ [][NextUnit]_vars

\* ------------------------------------------------------------------------
\* Properties
\* ------------------------------------------------------------------------
\* prepare_data has returned normally and nothing was called since
Returned == pc = "idle" /\ last.op = "prepare_data" /\ last.err = "none"

\* x != y on floats: NaN differs from everything, itself included
RNe(x, y) == IsNaN(x) \/ IsNaN(y) \/ x # y

\* the rows of a dataset with a missing cell in one of the listed columns
MissingRows(frame, cols) ==
    {r \in Rows : \E j \in DOMAIN cols : IsNaN(frame[cols[j]][r])}

\* C1: after prepare_data with the DELETE strategy, every column of the
\* prepared dataset holds exactly the rows of the input that have no missing
\* value in a processed numeric column (so those rows are absent everywhere
\* and the row count is the input's minus their number).
C1_RowAlignmentUnderDelete ==
    (Returned /\ call.missing_data = MissingData_DELETE) =>
        \A j \in DOMAIN data :
            DOMAIN data[j].values = Rows \ MissingRows(call.input0, call.numerical_cols)

RoundTripDefined(v) ==
    \/ /\ v.normalization = Normalization_MINMAX
       /\ IsFinite(v.col_data.max_) /\ IsFinite(v.col_data.min_)
       /\ v.col_data.max_ # v.col_data.min_
    \/ /\ v.normalization = Normalization_STD
       /\ IsFinite(v.col_data.mean_) /\ IsFinite(v.col_data.std_)
       /\ v.col_data.std_ # R(0)

C3_DummyEncoding ==
    last.op = "_dummy_encoder" =>
        \A r \in DOMAIN last.val.data :
            last.val.out[r] = R(last.val.encoder[last.val.data[r]])

\* C4: the one-hot encoder returns one indicator column per fitted category,
\* in the order of categories and named {column}_{category}, and in each row
\* whose value is a category exactly the indicator of that category is true.
C4_OneHot ==
    last.op = "_one_hot_encoder" =>
        LET v == last.val
        IN  /\ Len(v.out) = Len(v.categories)
            /\ \A i \in DOMAIN v.out : v.out[i].name = <<last.col_name, v.categories[i]>>
            /\ \A r \in DOMAIN v.data :
                  v.data[r] \in Range(v.categories) =>
                      /\ Cardinality({i \in DOMAIN v.out : v.out[i].values[r] = R(1)}) = 1
                      /\ \A i \in DOMAIN v.out :
                            v.out[i].values[r] = R(1) <=> v.categories[i] = v.data[r]

C4_Witness ==
    /\ last.op = "_one_hot_encoder"
    /\ Len(last.val.categories) >= 2
    /\ \E r \in DOMAIN last.val.data : last.val.out[2].values[r] = R(1)

\* the first row of a column that holds v
FirstSeen(col, v) == CHOOSE r \in DOMAIN col : col[r] = v /\ \A q \in DOMAIN col : col[q] = v => r <= q

\* C5: the fitted encoder is a bijection from the distinct values of the
\* column onto 0..N-1, and the code of a value is the number of distinct
\* values first seen before it.
C5_EncoderBijection ==
    last.op \in {"_dummy_encoder", "_one_hot_encoder"} =>
        LET v == last.val
            vals == Range(v.data)
        IN  /\ DOMAIN v.encoder = vals
            /\ {v.encoder[k] : k \in vals} = 0..(Cardinality(vals) - 1)
            /\ \A k1 \in vals, k2 \in vals : v.encoder[k1] = v.encoder[k2] => k1 = k2
            /\ \A k \in vals :
                  v.encoder[k] =
                      Cardinality({v.data[q] : q \in {q \in DOMAIN v.data : q < FirstSeen(v.data, k)}})

\* a column whose first-seen order is not its sorted order
C5_Witness ==
    /\ last.op \in {"_dummy_encoder", "_one_hot_encoder"}
    /\ \E k1 \in Range(last.val.data), k2 \in Range(last.val.data) :
          RLess(k1, k2) /\ last.val.encoder[k1] > last.val.encoder[k2]

\* the scalar of the statistics that an imputation strategy fills in
FillScalar(key, missing_data) ==
    IF missing_data = MissingData_MEAN THEN key.mean_
    ELSE IF missing_data = MissingData_STD THEN key.std_
    ELSE IF missing_data = MissingData_MIN THEN key.min_
    ELSE key.max_

\* C6: imputation by MEAN, STD, MIN or MAX keeps the rows of the column,
\* leaves the non-missing cells as they are and puts the strategy's scalar
\* in every missing cell.
C6_Imputation ==
    (/\ last.op = "_missing_data"
     /\ last.val.missing_data \in {MissingData_MEAN, MissingData_STD,
                                   MissingData_MIN, MissingData_MAX}) =>
        LET v == last.val
        IN  /\ last.err = "none"
            /\ DOMAIN v.out = DOMAIN v.data
            /\ \A r \in DOMAIN v.data :
                  v.out[r] = IF IsNaN(v.data[r]) THEN FillScalar(v.key, v.missing_data)
                             ELSE v.data[r]

C6_Witness ==
    /\ last.op = "_missing_data"
    /\ last.val.missing_data = MissingData_MAX
    /\ \E r \in DOMAIN last.val.data : IsNaN(last.val.data[r]) /\ IsFinite(last.val.out[r])
    /\ last.val.key.max_ # last.val.key.min_

\* C7: when prepare_data returns, the caller's dataset holds what it held when
\* the call was made.
C7_InputNotMutated == Returned => input_data = call.input0

\* C8: a revert_tuning call leaves the statistics and the prepared dataset as
\* they are; for a column without statistics it raises the lookup error, and
\* for a column prepare_data stored statistics for it returns the reverse
\* tuning computed with those statistics.
C8_RevertUsesStoredStatistics ==
    [][(last'.op = "revert_tuning" /\ last' # last) =>
          /\ UNCHANGED <<model_numerical_data, numerical_data, data>>
          /\ last'.col_name \notin DOMAIN model_numerical_data => last'.err = "KeyError"
          /\ (/\ last'.col_name \in DOMAIN model_numerical_data
              /\ \E j \in DOMAIN data : data[j].name = <<last'.col_name>>) =>
                \E nm \in NormalizationArgs :
                    LET tuned == ParameterTuning(input_data["a"],
                                                 model_numerical_data[last'.col_name],
                                                 nm, TRUE)
                    IN  last'.err = tuned.err /\ last'.val = tuned.val]_vars

\* a sequence without its adjacent repetitions
RECURSIVE Collapse(_)
Collapse(q) ==
    IF Len(q) <= 1 THEN q
    ELSE IF q[1] = q[2] THEN Collapse(Tail(q))
    ELSE <<q[1]>> \o Collapse(Tail(q))

\* C9: when prepare_data returns, the prepared dataset consists of the output
\* of each numeric column, in the order of numerical_cols, followed by the
\* output columns of each categorical column, in the order of
\* categorical_cols, none left out.
C9_ColumnOrder ==
    Returned =>
        Collapse([j \in DOMAIN data |-> data[j].name[1]])
            = call.numerical_cols \o call.categorical_cols

\* C10: a normalization method outside the enum makes _parameter_tuning return
\* its argument, forward and reverse, without raising.
C10_UnrecognizedNormalization ==
    (/\ last.op = "_parameter_tuning"
     /\ last.val.normalization \notin {Normalization_MINMAX, Normalization_STD,
                                       Normalization_L1, Normalization_L2,
                                       Normalization_ROBUST_SCALER}) =>
        /\ last.err = "none"
        /\ last.val.forward = last.val.data
        /\ last.val.back = last.val.data

C10_Witness ==
    /\ last.op = "_parameter_tuning"
    /\ last.val.normalization = 0
    /\ last.err = "none"
    /\ RoundTripDefined([last.val EXCEPT !.normalization = Normalization_STD])
    /\ \E r \in DOMAIN last.val.data : IsFinite(last.val.data[r])
    /\ last.val.back = last.val.data

\* prepare_data has raised and nothing was called since
Failed == pc = "idle" /\ last.op = "prepare_data" /\ last.err \notin {"none", "running"}

\* C11: prepare_data with categorical columns and a categorical method other
\* than DUMMY and ONE_HOT does not return normally, and a normal return never
\* leaves a requested categorical column without an output column.
C11_UnsupportedEncoding ==
    Returned =>
        /\ call.categorical_cols # <<>> =>
              call.categorical_type \in {Categorical_DUMMY, Categorical_ONE_HOT}
        /\ \A j \in DOMAIN call.categorical_cols :
              \E c \in DOMAIN data : data[c].name[1] = call.categorical_cols[j]

\* C12: when prepare_data raises, the prepared dataset, the retained
\* statistics and the caller's dataset are what they were when the call was
\* made.
C12_AllOrNothing ==
    Failed =>
        /\ data = call.data0
        /\ model_numerical_data = call.numerical0
        /\ model_categorical_data = call.categorical0
        /\ input_data = call.input0

\* x == y and x <= y on floats: false as soon as one side is NaN
REq(x, y) == ~RNe(x, y)
RLe(x, y) == ~IsNaN(x) /\ ~IsNaN(y) /\ ~RLess(y, x)

\* NumericalData has been applied to a column
Described == last.op = "NumericalData"

\* C13: NumericalData on a column without a non-missing value fails with an
\* empty-column error and returns no record whose mean, min, max, std or
\* median is undefined.
C13_EmptyColumn ==
    (Described /\ Valid(last.val.data) = {}) =>
        /\ last.err = "EmptyColumnError"
        /\ last.err = "none" =>
              \A f \in {"mean_", "min_", "max_", "std_", "median_"} :
                  ~IsNaN(last.val.stats[f])

\* min <= median <= max and min <= mean <= max
Ordered(st) ==
    /\ RLe(st.min_, st.median_) /\ RLe(st.median_, st.max_)
    /\ RLe(st.min_, st.mean_) /\ RLe(st.mean_, st.max_)

C15_L1Inversion ==
    (/\ last.op = "_parameter_tuning"
     /\ last.err = "none"
     /\ last.val.normalization = Normalization_L1) =>
        LET total == SeriesSum(SeriesAbs(last.val.data))
        IN  \A r \in Valid(last.val.data) :
               /\ last.val.back[r] = RMul(last.val.forward[r], total)
               /\ total # R(0) => last.val.back[r] = last.val.data[r]

\* C16: an iteration of the numeric loop describes the raw column, fills the
\* column using that description, and normalizes the filled column with that
\* same description, which is also the one it retains.
C16_StepOrder ==
    [][pc = "numerical" =>
        LET i == call.numerical_cols[call.i]
            raw == input_data[i]
            st == NumericalData(i, raw)
            imputed == MissingData(raw, st, call.missing_data)
        IN  /\ model_numerical_data'[i] = st
            /\ pc' # "idle" =>
                  /\ input_data'[i] = Reindex(imputed.val, DOMAIN raw)
                  /\ \E j \in DOMAIN model' :
                        /\ model'[j].key = i
                        /\ model'[j].cols =
                              <<[name |-> <<i>>,
                                 values |-> ParameterTuning(input_data'[i], st,
                                                call.normalization, FALSE).val]>>]_vars

\* [25, missing, 35, 45] with MEAN and STD: the retained mean is 35, the
\* column becomes [25, 35, 35, 45], the retained std is 10 (that of 25, 35,
\* 45; the filled column has another) and the output is (x - 35) / 10
C16_Witness ==
    /\ Returned
    /\ call.input0["a"] = <<R(25), NaN, R(35), R(45)>>
    /\ call.numerical_cols = <<"a">>
    /\ call.missing_data = MissingData_MEAN
    /\ call.normalization = Normalization_STD
    /\ model_numerical_data["a"].mean_ = R(35)
    /\ model_numerical_data["a"].std_ = R(10)
    /\ input_data["a"] = <<R(25), R(35), R(35), R(45)>>
    /\ SeriesStd(input_data["a"]) # R(10)
    /\ model[1].cols = <<[name |-> <<"a">>, values |-> <<R(-1), R(0), R(0), R(1)>>]>>

\* C17: after a prepare_data call has returned, the prepared dataset consists
\* of exactly the output columns of that call.
C17_NoStateAcrossCalls ==
    Returned => data = ConcatLoop(<<>>, model, 1)

\* the step is the iteration of the numeric loop of prepare_data for column k
Prepares(k) == pc = "numerical" /\ call.numerical_cols[call.i] = k

=============================================================================
